---- MODULE Spec2Model ----
(***************************************************************************)
(* Model of openapi_specgen/schema.py: the translation of Python type      *)
(* descriptors (classes, typing aliases, dataclasses, marshmallow schema   *)
(* classes) into OpenAPI schema dicts.                                     *)
(*                                                                         *)
(* A type descriptor is a record [k, n, arg]:                              *)
(*   k = "class"      a plain class (metaclass `type`): str, int, dict,    *)
(*                    list, or a declared dataclass; n is its __name__     *)
(*   k = "schema"     a marshmallow.Schema subclass (metaclass SchemaMeta) *)
(*   k = "TypeVar"    a typing.TypeVar named n                             *)
(*   k = "List"       typing.List[arg[1]]                                  *)
(*   k = "Optional"   typing.Optional[arg[1]]                              *)
(*   k = "ForwardRef" a string annotation (or typing.ForwardRef) whose     *)
(*                    evaluation yields arg[1]                             *)
(*   k = "None"       the value None                                       *)
(* A dict is a function from string keys to values; {} is <<>>.            *)
(* A raised exception is the dict-shaped value [error |-> name].           *)
(* The variable result holds the dict a call returned; a returned value    *)
(* that is no dict is held under a key naming what it is: [bool |-> b],    *)
(* [str |-> s] or [descriptor |-> t].                                      *)
(***************************************************************************)
EXTENDS Integers, Sequences, FiniteSets, TLC

\* classes       the declared dataclasses: name -> fields, in declaration order,
\*               each [name, type] with type the annotation as written
\* aliasHasName  whether typing aliases have a __name__ on this interpreter
\*               (Python 3.10 and later) or raise AttributeError (before)
\* call, result  the call made and what it returned or raised
VARIABLES classes, aliasHasName, call, result

vars == <<classes, aliasHasName, call, result>>

(* ---------------- bounds ---------------- *)

\* largest number of fields of the dataclass R that Init declares
MaxFields == 2

\* deepest nesting of typing aliases in the descriptors passed to a call
MaxNesting == 2

\* the interpreter's limit on nested calls (sys.getrecursionlimit())
RecursionLimit == 10

(* ---------------- type descriptors ---------------- *)

Class(name) == [k |-> "class", n |-> name, arg |-> <<>>]
Schema(name) == [k |-> "schema", n |-> name, arg |-> <<>>]
TypeVar(name) == [k |-> "TypeVar", n |-> name, arg |-> <<>>]
List(E) == [k |-> "List", n |-> "", arg |-> <<E>>]
\* typing flattens Optional[Optional[X]] to Optional[X]
Optional(E) ==
    IF E.k = "Optional" THEN E ELSE [k |-> "Optional", n |-> "", arg |-> <<E>>]
ForwardRef(E) == [k |-> "ForwardRef", n |-> "", arg |-> <<E>>]
None == [k |-> "None", n |-> "None", arg |-> <<>>]

str == Class("str")
date == Class("date")
datetime == Class("datetime")
float == Class("float")
int == Class("int")
bool == Class("bool")
list == Class("list")
dict == Class("dict")

\* the absent value of a string-valued lookup (dict.get without a default)
NoFormat == "None"

Raise(exc) == [error |-> exc]
IsErr(d) == "error" \in DOMAIN d

(* ---------------- the lookup tables ---------------- *)

OPENAPI_TYPE_MAP ==
    (str :> "string") @@ (date :> "string") @@ (datetime :> "string") @@
    (float :> "number") @@ (int :> "integer") @@ (bool :> "boolean") @@
    (list :> "array") @@
    (Optional(str) :> "string") @@ (Optional(date) :> "string") @@
    (Optional(datetime) :> "string") @@ (Optional(float) :> "number") @@
    (Optional(int) :> "integer") @@ (Optional(bool) :> "boolean")

\* the format table without its Optional[...] keys
OPENAPI_FORMAT_MAP_plain ==
    (date :> "date") @@ (datetime :> "date-time")

OPENAPI_FORMAT_MAP ==
    (date :> "date") @@ (datetime :> "date-time") @@
    (Optional(date) :> "date") @@ (Optional(datetime) :> "date-time")

(* ---------------- what the interpreter and the libraries do ---------------- *)

\* isinstance(t, typing._GenericAlias)
IsGenericAlias(t) == t.k \in {"List", "Optional"}

\* type(t): the metaclass of a class, the class of any other object
TypeOf(t) ==
    CASE t.k = "class" -> "type"
      [] t.k = "schema" -> "SchemaMeta"
      [] t.k \in {"List", "Optional"} -> "_GenericAlias"
      [] OTHER -> t.k

\* issubclass(t, marshmallow.Schema)
IsSchemaSubclass(t) == t.k = "schema"

\* dataclasses.is_dataclass(t)
is_dataclass(t) == t.k = "class" /\ t.n \in DOMAIN classes

\* t.__name__: [ok |-> TRUE, v |-> name], or ok = FALSE for AttributeError
NameOf(t) ==
    CASE t.k \in {"class", "schema", "TypeVar"} -> [ok |-> TRUE, v |-> t.n]
      [] t.k \in {"List", "Optional"} -> [ok |-> aliasHasName, v |-> t.k]
      [] OTHER -> [ok |-> FALSE, v |-> ""]

\* typing.get_type_hints evaluates string annotations, also inside aliases
RECURSIVE ResolveHint(_)
ResolveHint(t) ==
    CASE t.k = "ForwardRef" -> ResolveHint(t.arg[1])
      [] t.k = "List" -> List(ResolveHint(t.arg[1]))
      [] t.k = "Optional" -> Optional(ResolveHint(t.arg[1]))
      [] OTHER -> t

(* ---------------- schema.py ---------------- *)

\* a test for the value None, not its type, among the arguments
_is_optional_type_never(field) ==
    field.k = "Optional" /\ None \in { field.arg[i] : i \in 1..Len(field.arg) }

_is_optional_type(field) == field.k = "Optional"

get_array_item_type(array_type) ==
    IF IsGenericAlias(array_type) THEN array_type.arg[1] ELSE None

\* the table lookup without its "object" default
get_openapi_type_no_default(data_type) ==
    IF IsGenericAlias(data_type) /\ data_type.k = "List"
    THEN "array"
    ELSE IF data_type \in DOMAIN OPENAPI_TYPE_MAP
         THEN OPENAPI_TYPE_MAP[data_type]
         ELSE "None"

get_openapi_type(data_type) ==
    IF IsGenericAlias(data_type) /\ data_type.k = "List"
    THEN "array"
    ELSE IF data_type \in DOMAIN OPENAPI_TYPE_MAP
         THEN OPENAPI_TYPE_MAP[data_type]
         ELSE "object"

get_openapi_format(data_type) ==
    IF data_type \in DOMAIN OPENAPI_FORMAT_MAP
    THEN OPENAPI_FORMAT_MAP[data_type]
    ELSE NoFormat

RefPrefix == "#/components/schemas/"

\* the adapter of marshmallow_schema.py, which follows the same reference /
\* inline contract: a reference to the schema class, or else its translation,
\* a mapping that only the adapter builds
get_openapi_schema_from_mashmallow_schema(data_type, reference) ==
    IF reference
    THEN ("$ref" :> <<RefPrefix, data_type.n>>)
    ELSE (data_type.n :> [adapter |-> data_type.n])

RECURSIVE get_openapi_schema(_, _, _)
RECURSIVE get_openapi_array_schema(_, _)
RECURSIVE get_openapi_schema_from_dataclass(_, _)
RECURSIVE Properties(_, _, _)
RECURSIVE MergeNested(_, _, _, _)

\* the items resolved inline instead of by reference
get_openapi_array_schema_inline(array_type, depth) ==
    IF depth > RecursionLimit THEN Raise("RecursionError") ELSE
    LET item_type == get_array_item_type(array_type) IN
    IF item_type = None \/ TypeOf(item_type) = "TypeVar"
    THEN [type |-> "array", items |-> <<>>]
    ELSE LET items == get_openapi_schema(item_type, FALSE, depth + 1) IN
         IF IsErr(items) THEN items
         ELSE [type |-> "array", items |-> items]

get_openapi_array_schema(array_type, depth) ==
    IF depth > RecursionLimit THEN Raise("RecursionError") ELSE
    LET item_type == get_array_item_type(array_type) IN
    IF item_type = None \/ TypeOf(item_type) = "TypeVar"
    THEN [type |-> "array", items |-> <<>>]
    ELSE LET items == get_openapi_schema(item_type, TRUE, depth + 1) IN
         IF IsErr(items) THEN items
         ELSE [type |-> "array", items |-> items]

\* the dataclass test made before the reference test
get_openapi_schema_dataclass_first(data_type, reference, depth) ==
    IF depth > RecursionLimit THEN Raise("RecursionError") ELSE
    LET openapi_type == get_openapi_type(data_type) IN
    IF openapi_type = "object" /\ TypeOf(data_type) = "type" /\ IsSchemaSubclass(data_type)
    THEN get_openapi_schema_from_mashmallow_schema(data_type, reference)
    ELSE IF openapi_type = "object" /\ is_dataclass(data_type)
    THEN get_openapi_schema_from_dataclass(data_type, depth + 1)
    ELSE IF openapi_type = "object" /\ reference
    THEN IF NameOf(data_type).ok
         THEN ("$ref" :> <<RefPrefix, NameOf(data_type).v>>)
         ELSE Raise("AttributeError")
    ELSE IF openapi_type = "array"
    THEN get_openapi_array_schema(data_type, depth + 1)
    ELSE LET openapi_format == get_openapi_format(data_type) IN
         IF openapi_format # NoFormat
         THEN [type |-> openapi_type, format |-> openapi_format]
         ELSE [type |-> openapi_type]

get_openapi_schema(data_type, reference, depth) ==
    IF depth > RecursionLimit THEN Raise("RecursionError") ELSE
    LET openapi_type == get_openapi_type(data_type) IN
    IF openapi_type = "object" /\ TypeOf(data_type) = "type" /\ IsSchemaSubclass(data_type)
    THEN get_openapi_schema_from_mashmallow_schema(data_type, reference)
    ELSE IF openapi_type = "object" /\ reference
    THEN IF NameOf(data_type).ok
         THEN ("$ref" :> <<RefPrefix, NameOf(data_type).v>>)
         ELSE Raise("AttributeError")
    ELSE IF openapi_type = "object" /\ is_dataclass(data_type)
    THEN get_openapi_schema_from_dataclass(data_type, depth + 1)
    ELSE IF openapi_type = "array"
    THEN get_openapi_array_schema(data_type, depth + 1)
    ELSE LET openapi_format == get_openapi_format(data_type) IN
         IF openapi_format # NoFormat
         THEN [type |-> openapi_type, format |-> openapi_format]
         ELSE [type |-> openapi_type]

\* the 'properties' comprehension over fields[i..], in declaration order
Properties(fields, i, depth) ==
    IF i > Len(fields) THEN <<>> ELSE
    LET head == get_openapi_schema(ResolveHint(fields[i].type), TRUE, depth + 1) IN
    IF IsErr(head) THEN head ELSE
    LET rest == Properties(fields, i + 1, depth) IN
    IF IsErr(rest) THEN rest ELSE (fields[i].name :> head) @@ rest

\* the loop over fields[i..] that updates openapi_schema with nested definitions
MergeNested(openapi_schema, fields, i, depth) ==
    IF i > Len(fields) THEN openapi_schema ELSE
    IF get_openapi_type(fields[i].type) = "object"
    THEN LET nested == get_openapi_schema(fields[i].type, FALSE, depth + 1) IN
         IF IsErr(nested) THEN nested
         ELSE MergeNested(nested @@ openapi_schema, fields, i + 1, depth)
    ELSE MergeNested(openapi_schema, fields, i + 1, depth)

get_openapi_schema_from_dataclass(data_type, depth) ==
    IF depth > RecursionLimit THEN Raise("RecursionError") ELSE
    IF ~is_dataclass(data_type) THEN Raise("TypeError") ELSE
    LET fields == classes[data_type.n]
        required == SelectSeq([i \in 1..Len(fields) |-> fields[i]],
                              LAMBDA f : ~_is_optional_type(ResolveHint(f.type)))
        properties == Properties(fields, 1, depth)
    IN  IF IsErr(properties) THEN properties ELSE
        MergeNested(
            (data_type.n :> [title |-> data_type.n,
                             required |-> [i \in 1..Len(required) |-> required[i].name],
                             type |-> "object",
                             properties |-> properties]),
            fields, 1, depth)

(* ---------------- the declared classes and the inputs ---------------- *)

Person == Class("Person")
Team == Class("Team")
R == Class("R")
V == Schema("V")
T == TypeVar("T")

\* @dataclass class Person: name: str; age: int; nickname: Optional[str]
\* @dataclass class Team: lead: Person; members: List[Person]
Fixture ==
    ("Person" :> << [name |-> "name", type |-> str],
                    [name |-> "age", type |-> int],
                    [name |-> "nickname", type |-> Optional(str)] >>) @@
    ("Team" :> << [name |-> "lead", type |-> Person],
                  [name |-> "members", type |-> List(Person)] >>)

\* the annotations a field of R is declared with
FieldTypes ==
    { str, int, Optional(str), List(Person), Person, Team, R, Optional(Person),
      dict, V, ForwardRef(Person), ForwardRef(R), ForwardRef(Optional(str)) }

FieldNames == <<"a", "b", "c", "d">>

\* the declarations of R with n fields, named in declaration order
Declarations(n) ==
    { [i \in 1..n |-> [name |-> FieldNames[i], type |-> ft[i]]] : ft \in [1..n -> FieldTypes] }

BaseTypes ==
    { str, date, datetime, float, int, bool, list, dict, Person, Team, R, V, T }

\* the descriptors with at most n levels of List[], Optional[] or quoting
RECURSIVE Descriptors(_)
Descriptors(n) ==
    IF n = 0 THEN BaseTypes
    ELSE LET D == Descriptors(n - 1) IN
         D \cup { List(d) : d \in D } \cup { Optional(d) : d \in D }
           \cup { ForwardRef(d) : d \in D }

\* the arguments a call is made with
Args == Descriptors(MaxNesting)

NoCall == [fn |-> "none", data_type |-> None, reference |-> TRUE]

(* ---------------- the state machine ---------------- *)

\* R declared with up to MaxFields fields, on either kind of interpreter
Init ==
    /\ classes \in { Fixture @@ ("R" :> d) :
                       d \in UNION { Declarations(n) : n \in 0..MaxFields } }
    /\ aliasHasName \in BOOLEAN
    /\ call = NoCall
    /\ result = <<>>

\* one call of the module per run of the interpreter: the functions keep no
\* state, so a later call sees what the first one saw
Returns(fn, data_type, reference, value) ==
    /\ call' = [fn |-> fn, data_type |-> data_type, reference |-> reference]
    /\ result' = value
    /\ UNCHANGED <<classes, aliasHasName>>

IsOptionalType ==
    /\ call = NoCall
    /\ \E t \in Args : Returns("_is_optional_type", t, TRUE, [bool |-> _is_optional_type(t)])

GetArrayItemType ==
    /\ call = NoCall
    /\ \E t \in Args : Returns("get_array_item_type", t, TRUE,
                           [descriptor |-> get_array_item_type(t)])

GetOpenapiArraySchema ==
    /\ call = NoCall
    /\ \E t \in Args :
         Returns("get_openapi_array_schema", t, TRUE, get_openapi_array_schema(t, 1))

GetOpenapiSchema ==
    /\ call = NoCall
    /\ \E t \in Args, reference \in BOOLEAN :
         Returns("get_openapi_schema", t, reference, get_openapi_schema(t, reference, 1))

GetOpenapiSchemaFromDataclass ==
    /\ call = NoCall
    /\ \E t \in Args :
         Returns("get_openapi_schema_from_dataclass", t, TRUE,
                 get_openapi_schema_from_dataclass(t, 1))

GetOpenapiType ==
    /\ call = NoCall
    /\ \E t \in Args : Returns("get_openapi_type", t, TRUE, [str |-> get_openapi_type(t)])

GetOpenapiFormat ==
    /\ call = NoCall
    /\ \E t \in Args : Returns("get_openapi_format", t, TRUE, [str |-> get_openapi_format(t)])

Next ==
    \/ IsOptionalType
    \/ GetArrayItemType
    \/ GetOpenapiArraySchema
    \/ GetOpenapiSchema
    \/ GetOpenapiSchemaFromDataclass
    \/ GetOpenapiType
    \/ GetOpenapiFormat

Spec == Init /\ [][Next]_vars

(* ---------------- vocabulary of the properties ---------------- *)

Resolved(fn) == call.fn = fn

\* a call of get_openapi_schema_from_dataclass on a declared dataclass returned
RecordResolved ==
    /\ Resolved("get_openapi_schema_from_dataclass")
    /\ is_dataclass(call.data_type)
    /\ ~IsErr(result)

RefTo(name) == ("$ref" :> <<"#/components/schemas/", name>>)

\* the classes that the fields of class name have as their resolved type
RecordTargets(name) ==
    { ResolveHint(classes[name][i].type).n :
        i \in { j \in 1..Len(classes[name]) :
                  is_dataclass(ResolveHint(classes[name][j].type)) } }

RECURSIVE Closure(_, _)
Closure(S, k) ==
    IF k = 0 THEN S
    ELSE Closure(S \cup UNION { RecordTargets(m) : m \in S }, k - 1)

\* the classes reached from class name through record-typed fields, itself included
Reachable(name) == Closure({name}, Cardinality(DOMAIN classes))

\* class name lies on a cycle of record-typed fields
OnCycle(name) ==
    \E m \in RecordTargets(name) : name \in Reachable(m)

\* the six scalar types of the table, plain and optional-wrapped
ScalarNames == {"str", "date", "datetime", "float", "int", "bool"}
ScalarCases ==
    { Class(n) : n \in ScalarNames } \cup { Optional(Class(n)) : n \in ScalarNames }

ScalarOf(t) == IF t.k = "Optional" THEN t.arg[1] ELSE t

KindOf(name) ==
    CASE name \in {"str", "date", "datetime"} -> "string"
      [] name = "float" -> "number"
      [] name = "int" -> "integer"
      [] name = "bool" -> "boolean"

\* a descriptor the classifier of section 4.1 tags `object`
ObjectKind(t) == t.k # "List" /\ t # list /\ t \notin ScalarCases

\* exactly one of the keys `type` and `$ref`
TypeXorRef(f) == ("type" \in DOMAIN f) # ("$ref" \in DOMAIN f)

RECURSIVE FragmentOk(_)
FragmentOk(f) ==
    /\ TypeXorRef(f)
    /\ ("items" \in DOMAIN f /\ f["items"] # <<>>) => FragmentOk(f["items"])

\* the schema keywords whose value is a bare string, not a fragment
StringKeywords == {"type", "format", "title"}

(* ---------------- C1 ---------------- *)

\* C1: for a marshmallow Schema subclass V and either value of the reference
\* flag, get_openapi_schema(V, reference) returns exactly what the adapter
\* get_openapi_schema_from_mashmallow_schema returns for (V, reference).
C1_DelegatesToAdapter ==
    (Resolved("get_openapi_schema") /\ call.data_type.k = "schema")
      => result = get_openapi_schema_from_mashmallow_schema(call.data_type, call.reference)

(* ---------------- C2 ---------------- *)

\* C2: the mapping returned by get_openapi_schema_from_dataclass(R) has an
\* entry for R and for every dataclass reached from R through record-typed
\* fields (types taken after string annotations are resolved), each keyed by
\* its own name.
C2_ReachableRecordsMerged ==
    RecordResolved =>
      \A name \in Reachable(call.data_type.n) :
        name \in DOMAIN result /\ result[name]["title"] = name

(* ---------------- C3 ---------------- *)

\* C3: every top-level key of the mapping returned for a dataclass is the name
\* of a dataclass and its value is that class's entry (title = key, type =
\* object); no other key, such as a bare `type`, is at the top level.
C3_TopLevelKeysAreRecords ==
    RecordResolved =>
      \A key \in DOMAIN result :
        /\ key \in DOMAIN classes
        /\ result[key]["title"] = key
        /\ result[key]["type"] = "object"

(* ---------------- C4 ---------------- *)

\* C4: `required` of the root entry is the declaration-ordered list of the
\* names of the fields whose resolved type is not Optional[...]; an optional
\* field is absent from `required` and present in `properties`.
C4_RequiredIsNonOptional ==
    RecordResolved =>
      LET fields == classes[call.data_type.n]
          entry == result[call.data_type.n]
          kept == SelectSeq(fields, LAMBDA f : ResolveHint(f.type).k # "Optional")
      IN  /\ entry["required"] = [i \in 1..Len(kept) |-> kept[i].name]
          /\ \A i \in 1..Len(fields) : fields[i].name \in DOMAIN entry["properties"]

\* R has an optional field declared before a required one, and was resolved
C4_Witness ==
    /\ RecordResolved
    /\ call.data_type = R
    /\ Len(classes["R"]) = 2
    /\ ResolveHint(classes["R"][1].type).k = "Optional"
    /\ result["R"]["required"] = <<"b">>
    /\ DOMAIN result["R"]["properties"] = {"a", "b"}

(* ---------------- C5 ---------------- *)

\* C5: every fragment produced (the result of get_openapi_schema with
\* reference = true, every top-level entry of the mapping returned for a
\* dataclass, every value of an entry's `properties`, every non-empty `items`)
\* has either a `type` key or a `$ref` key, and never both.
C5_TypeXorRef ==
    /\ (Resolved("get_openapi_schema") /\ call.reference /\ ~IsErr(result))
         => FragmentOk(result)
    /\ RecordResolved =>
         \A key \in DOMAIN result :
           /\ key \notin StringKeywords
           /\ FragmentOk(result[key])
           /\ \A p \in DOMAIN result[key]["properties"] :
                FragmentOk(result[key]["properties"][p])

(* ---------------- C6 ---------------- *)

\* C6: for a dataclass R, get_openapi_schema(R, reference = true) is exactly
\* {$ref: "#/components/schemas/R"}, whatever the fields of R are.
C6_RecordReference ==
    (Resolved("get_openapi_schema") /\ call.reference /\ is_dataclass(call.data_type))
      => result = RefTo(call.data_type.n)

\* R was resolved by reference while one of its two fields is R itself
C6_Witness ==
    /\ Resolved("get_openapi_schema")
    /\ call.reference
    /\ call.data_type = R
    /\ Len(classes["R"]) = 2
    /\ classes["R"][2].type = R
    /\ result = RefTo("R")

(* ---------------- C7 ---------------- *)

\* C7: for each scalar type of the table and its optional-wrapped form, with
\* either value of the reference flag, get_openapi_schema returns
\* {type: kind}, with `format` (date, date-time) exactly for date and datetime.
C7_ScalarFragments ==
    (Resolved("get_openapi_schema") /\ call.data_type \in ScalarCases)
      => LET name == ScalarOf(call.data_type).n IN
         result = CASE name = "date" -> [type |-> "string", format |-> "date"]
                    [] name = "datetime" -> [type |-> "string", format |-> "date-time"]
                    [] OTHER -> [type |-> KindOf(name)]

\* Optional[datetime] was resolved without the reference flag
C7_Witness ==
    /\ Resolved("get_openapi_schema")
    /\ ~call.reference
    /\ call.data_type = Optional(datetime)
    /\ result = [type |-> "string", format |-> "date-time"]

(* ---------------- C8 ---------------- *)

\* C8: for List[E] with E not a type variable, at any nesting of lists,
\* get_openapi_schema(List[E]) is {type: array, items: X} with X the result of
\* get_openapi_schema(E, reference = true); a dataclass element is a `$ref`.
\* When resolving E raises, resolving List[E] raises the same.
C8_ItemsByReference ==
    (/\ Resolved("get_openapi_schema")
     /\ call.data_type.k = "List"
     /\ call.data_type.arg[1].k # "TypeVar")
      => LET E == call.data_type.arg[1]
             X == get_openapi_schema(E, TRUE, 1)
         IN  /\ IsErr(X) => result = X
             /\ ~IsErr(X) => result = [type |-> "array", items |-> X]
             /\ is_dataclass(E) => result = [type |-> "array", items |-> RefTo(E.n)]

\* List[List[R]] was resolved without the reference flag: the element of the
\* inner list is a reference to R
C8_Witness ==
    /\ Resolved("get_openapi_schema")
    /\ ~call.reference
    /\ call.data_type = List(List(R))
    /\ Len(classes["R"]) > 0
    /\ result = [type |-> "array",
                 items |-> [type |-> "array", items |-> RefTo("R")]]

(* ---------------- C9 ---------------- *)

\* C9 as stated: for a descriptor classified `object` that is neither a
\* marshmallow schema nor a dataclass, get_openapi_schema(T, reference = false)
\* produces no fragment.
C9_NoFragment ==
    (/\ Resolved("get_openapi_schema")
     /\ ~call.reference
     /\ ObjectKind(call.data_type)
     /\ call.data_type.k # "schema"
     /\ ~is_dataclass(call.data_type))
      => ~("type" \in DOMAIN result \/ "$ref" \in DOMAIN result)

\* C9 as amended: for such a descriptor get_openapi_schema(T, reference =
\* false) returns the fragment {type: object}, without a format.
C9_ObjectFragment ==
    (/\ Resolved("get_openapi_schema")
     /\ ~call.reference
     /\ ObjectKind(call.data_type)
     /\ call.data_type.k # "schema"
     /\ ~is_dataclass(call.data_type))
      => result = [type |-> "object"]

\* Optional[Person] was resolved without the reference flag
C9_Witness ==
    /\ Resolved("get_openapi_schema")
    /\ ~call.reference
    /\ call.data_type = Optional(Person)
    /\ result = [type |-> "object"]

(* ---------------- C10 ---------------- *)

\* C10: get_openapi_schema_from_dataclass(R) on a dataclass that reaches
\* itself through record-typed fields never returns (the recursion runs until
\* the interpreter's limit); on a graph without cycles it returns.
C10_CycleNeverReturns ==
    (/\ Resolved("get_openapi_schema_from_dataclass")
     /\ is_dataclass(call.data_type))
      => IF OnCycle(call.data_type.n)
         THEN result = Raise("RecursionError")
         ELSE result # Raise("RecursionError")

====
